---- MODULE Spec2Model ----
(***************************************************************************)
(* Model of MediaSaverBot/bot.py: the handle_url message handler, the      *)
(* download / gate / relay / record / cleanup pipeline it drives, and the  *)
(* inline failure classifier of its DownloadError branch.                  *)
(*                                                                         *)
(* Texts are sequences of symbols.  Texts the failure classifier searches  *)
(* are spelled character by character; texts nothing searches (urls,       *)
(* platform tags, configured messages) are one opaque symbol.              *)
(***************************************************************************)
EXTENDS Integers, Sequences, FiniteSets, TLC

\* ------------------------------------------------------------------------
\* Python values
\* ------------------------------------------------------------------------
\* None and a present value, for the variables that may hold None.
None == << >>

Some(x) == <<x>>

IsNone(o) == o = None

Val(o) == o[1]

\* ------------------------------------------------------------------------
\* Bounds of the model
\* ------------------------------------------------------------------------
\* Longest downloader failure reason, in fragments.
MaxParts == 2

\* ------------------------------------------------------------------------
\* Text
\* ------------------------------------------------------------------------
UpperCase == <<"A","B","C","D","E","F","G","H","I","J","K","L","M","N","O","P","Q","R","S","T","U","V","W","X","Y","Z">>

LowerCase == <<"a","b","c","d","e","f","g","h","i","j","k","l","m","n","o","p","q","r","s","t","u","v","w","x","y","z">>

\* str.lower() on one character.
LowerChar(c) ==
  IF \E i \in 1..Len(UpperCase) : UpperCase[i] = c
  THEN LowerCase[CHOOSE i \in 1..Len(UpperCase) : UpperCase[i] = c]
  ELSE c

\* str.lower()
lower(s) == [i \in 1..Len(s) |-> LowerChar(s[i])]

\* s.endswith(suffix)
EndsWith(s, suffix) ==
  /\ Len(suffix) <= Len(s)
  /\ \A j \in 1..Len(suffix) : s[Len(s) - Len(suffix) + j] = suffix[j]

\* pat in s
Contains(s, pat) ==
  \E i \in 0..(Len(s) - Len(pat)) : \A j \in 1..Len(pat) : s[i + j] = pat[j]

Digits == <<"0","1","2","3","4","5","6","7","8","9">>

\* format of a non-negative integer inside an f-string
RECURSIVE IntToStr(_)
IntToStr(n) ==
  IF n < 10 THEN <<Digits[n + 1]>>
  ELSE IntToStr(n \div 10) \o <<Digits[(n % 10) + 1]>>

\* format of an opaque value (a platform tag, a url) inside an f-string
Str(v) == <<v>>

\* The patterns of the failure classifier.
PatPrivate == <<"i","s"," ","p","r","i","v","a","t","e">>

PatTooLarge == <<"i","s"," ","t","o","o"," ","l","a","r","g","e">>

PatNoVideo == <<"d","o","e","s"," ","n","o","t"," ","c","o","n","t","a","i","n"," ","a"," ","v","i","d","e","o">>

PatNoInfo == <<"c","o","u","l","d"," ","n","o","t"," ","l","o","a","d"," ","v","i","d","e","o"," ","i","n","f","o","r","m","a","t","i","o","n">>

PatNoStreams == <<"n","o"," ","s","u","i","t","a","b","l","e"," ","v","i","d","e","o"," ","s","t","r","e","a","m","s">>

\* The user-facing templates (opaque symbols: nothing searches them).
ERROR_MESSAGE == <<"ERROR_MESSAGE">>

MsgPrivate == <<"Sorry, I can't download videos from private accounts. The account needs to be public.">>

MsgTooLarge == <<"Sorry, this video is too large to send via Telegram. Telegram has a 50MB size limit.">>

MsgNoVideo == <<"This post doesn't contain a video. I can only download video content.">>

MsgNoInfo == <<"I couldn't load information about this video. It might be private or restricted.">>

MsgNoStreams == <<"No suitable video format found. The video might be unavailable or protected.">>

INVALID_URL_MESSAGE == <<"INVALID_URL_MESSAGE">>

PROCESSING_MESSAGE == <<"PROCESSING_MESSAGE">>

DOWNLOAD_SUCCESS_MESSAGE == <<"DOWNLOAD_SUCCESS_MESSAGE">>

Templates == {ERROR_MESSAGE, MsgPrivate, MsgTooLarge, MsgNoVideo, MsgNoInfo, MsgNoStreams}

\* The wrong order of checks: the size pattern tried before the privacy one.
classify_message_size_first(error_message) ==
  IF Contains(lower(error_message), PatTooLarge) THEN MsgTooLarge
  ELSE IF Contains(lower(error_message), PatPrivate) THEN MsgPrivate
  ELSE IF Contains(lower(error_message), PatNoVideo) THEN MsgNoVideo
  ELSE IF Contains(lower(error_message), PatNoInfo) THEN MsgNoInfo
  ELSE IF Contains(lower(error_message), PatNoStreams) THEN MsgNoStreams
  ELSE ERROR_MESSAGE

\* The if/elif chain that picks the friendly message of a DownloadError.
classify_message(error_message) ==
  IF Contains(lower(error_message), PatPrivate) THEN MsgPrivate
  ELSE IF Contains(lower(error_message), PatTooLarge) THEN MsgTooLarge
  ELSE IF Contains(lower(error_message), PatNoVideo) THEN MsgNoVideo
  ELSE IF Contains(lower(error_message), PatNoInfo) THEN MsgNoInfo
  ELSE IF Contains(lower(error_message), PatNoStreams) THEN MsgNoStreams
  ELSE ERROR_MESSAGE

DetailsSep == <<"\n\n">> \o <<"D","e","t","a","i","l","s",":"," ">>

\* The reply without the technical details.
detailed_message_friendly_only(error_message) ==
  classify_message(error_message)

\* detailed_message = f"{user_friendly_message}\n\nDetails: {error_message}"
detailed_message(error_message) ==
  classify_message(error_message) \o DetailsSep \o error_message

\* The text of the unexpected-error reply.
UnexpectedReply ==
  ERROR_MESSAGE \o <<"\n\n">> \o <<"An unexpected error occurred. Please try again later.">>

\* ------------------------------------------------------------------------
\* Inputs: what the collaborators of handle_url can hand back
\* ------------------------------------------------------------------------
\* Pieces the failure reasons of the downloaders are put together from.
Fragments ==
  { <<"A","c","c","o","u","n","t"," ","I","s"," ","P","r","i","v","a","t","e">>,
    <<"i","s"," ","t","o","o"," ","l","a","r","g","e">>,
    <<" ","t","o","o"," ","l","a","r","g","e">>,
    <<"d","o","e","s"," ","n","o","t"," ","c","o","n","t","a","i","n"," ","a"," ","v","i","d","e","o">>,
    <<"C","o","u","l","d"," ","N","o","t"," ","L","o","a","d"," ","V","i","d","e","o"," ","I","n","f","o","r","m","a","t","i","o","n">>,
    <<"n","o"," ","s","u","i","t","a","b","l","e"," ","v","i","d","e","o"," ","s","t","r","e","a","m","s">>,
    <<"t","i","m","e","o","u","t">>,
    <<"T","h","i","s">> }

RECURSIVE TextsOf(_)
TextsOf(n) ==
  IF n = 0 THEN { << >> }
  ELSE LET shorter == TextsOf(n - 1)
       IN  shorter \cup { t \o f : t \in shorter, f \in Fragments }

\* The non-empty reasons a downloader gives when it raises DownloadError.
ErrorTexts == TextsOf(MaxParts) \ { << >> }

\* str(e) of the exceptions that are not DownloadError.
ExceptionTexts ==
  { <<"t","i","m","e","o","u","t">>,
    <<"R","e","q","u","e","s","t"," ","E","n","t","i","t","y"," ","T","o","o"," ","L","a","r","g","e">> }

\* str(e) of a persistence failure.
DbErrorText == <<"d","b"," ","d","o","w","n">>

\* The platform tags get_url_type can hand back: None, an empty tag, the five
\* tags the dispatch knows, and a tag it has no branch for.
Platforms == {"youtube", "instagram", "tiktok", "twitter", "facebook"}

UrlTypes == {None, Some("")} \cup {Some(p) : p \in Platforms \cup {"vimeo"}}

\* not url_type
Falsy(url_type) == IsNone(url_type) \/ Val(url_type) = ""

\* max_size_mb = 50
max_size_mb == 50

MiB == 1024 * 1024

\* Byte sizes of the files a downloader leaves behind.
FileSizes == {3 * MiB, max_size_mb * MiB, max_size_mb * MiB + 1, 60 * MiB}

RECURSIVE GCD(_, _)
GCD(a, b) == IF b = 0 THEN a ELSE GCD(b, a % b)

\* a / b on two integers: the quotient as a fraction in lowest terms (the
\* float is exact for these magnitudes when b is a power of two).
TrueDiv(a, b) ==
  LET g == GCD(a, b) IN [num |-> a \div g, den |-> b \div g]

\* file_size_mb = file_size / (1024*1024)
file_size_mb_of(file_size) == TrueDiv(file_size, 1024 * 1024)

\* The gate with the size test left out.
TooLargeNever(file_size) == FALSE

\* file_size > max_size_mb * 1024 * 1024
TooLarge(file_size) == file_size > max_size_mb * 1024 * 1024

\* f"Couldn't download video from {url_type}: {url}"
MsgCouldNotDownload(url_type, url) ==
  <<"C","o","u","l","d","n","'","t"," ","d","o","w","n","l","o","a","d"," ","v","i","d","e","o"," ","f","r","o","m"," ">>
    \o Str(url_type) \o <<":"," ">> \o url

MsgFileNotFound ==
  <<"T","h","e"," ","d","o","w","n","l","o","a","d","e","d"," ","f","i","l","e"," ","c","o","u","l","d"," ","n","o","t"," ","b","e"," ","f","o","u","n","d",".">>

\* f"Video too large to send (limit: {max_size_mb}MB)"
MsgRecordTooLarge ==
  <<"V","i","d","e","o"," ","t","o","o"," ","l","a","r","g","e"," ","t","o"," ","s","e","n","d"," ","(","l","i","m","i","t",":"," ">>
    \o IntToStr(max_size_mb) \o <<"M","B",")">>

\* f"The video is too large to send via Telegram (limit: {max_size_mb}MB)."
MsgTooLargeToSend ==
  <<"T","h","e"," ","v","i","d","e","o"," ","i","s"," ","t","o","o"," ","l","a","r","g","e"," ","t","o"," ","s","e","n","d"," ","v","i","a"," ","T","e","l","e","g","r","a","m"," ","(","l","i","m","i","t",":"," ">>
    \o IntToStr(max_size_mb) \o <<"M","B",")",".">>

\* f"Could not send video: {str(e)}"
MsgCouldNotSend(e) ==
  <<"C","o","u","l","d"," ","n","o","t"," ","s","e","n","d"," ","v","i","d","e","o",":"," ">> \o e

\* f"Unexpected error: {str(e)}"
MsgUnexpected(e) ==
  <<"U","n","e","x","p","e","c","t","e","d"," ","e","r","r","o","r",":"," ">> \o e

\* ------------------------------------------------------------------------
\* State
\* ------------------------------------------------------------------------
VARIABLES
  run,        \* run[r]: the locals and the position of one call of handle_url
  downloads,  \* the downloads table: the OutcomeRecords appended so far
  fs,         \* the files that exist: path -> size in bytes
  dirs        \* the temporary directories that exist

vars == <<run, downloads, fs, dirs>>

Runs == DOMAIN run

\* update.message.text.strip() of the message run r handles
UrlOf(r) == <<"https://host/video/">> \o IntToStr(r)

\* The locals of handle_url at its entry, and what the chat shows so far.
InitRun(r) ==
  [ pc             |-> "classify",
    url            |-> UrlOf(r),
    url_type       |-> None,
    user_db        |-> None,
    processing_msg |-> [state |-> "none", text |-> << >>, edits |-> 0],
    video_path     |-> None,
    file_size      |-> None,
    file_size_mb   |-> None,
    exc            |-> None,
    \* what the run did, as the outside saw it
    texts          |-> << >>,      \* plain replies sent with reply_text
    video          |-> None,       \* the video reply, once delivered
    send_attempts  |-> 0,          \* calls of reply_video
    downloader     |-> << >>,      \* the downloaders invoked, in order
    record_calls   |-> 0,          \* calls of record_download
    exists_checked |-> FALSE,      \* os.path.exists was consulted
    failure        |-> None,       \* the pipeline failure of the run
    db_raised      |-> FALSE,      \* a persistence call of the run raised
    cleanup_raised |-> FALSE,      \* os.remove or os.rmdir of the run raised
    recorded       |-> << >> ]     \* the OutcomeRecords the run appended itself

Init ==
  /\ run = [r \in {1} |-> InitRun(r)]
  /\ downloads = << >>
  /\ fs = [p \in {} |-> 0]
  /\ dirs = {}

\* Two messages arrive close together: the application runs one call of
\* handle_url for each, interleaved at every step.
InitConc ==
  /\ run = [r \in {1, 2} |-> InitRun(r)]
  /\ downloads = << >>
  /\ fs = [p \in {} |-> 0]
  /\ dirs = {}

\* What the collaborators of a run may answer. A run on its own is explored
\* with every answer; overlapping runs with one answer of each kind.
Alone == Cardinality(Runs) = 1

UrlTypeInputs ==
  IF Alone THEN UrlTypes ELSE {None, Some("tiktok")}

ErrorTextInputs ==
  IF Alone THEN ErrorTexts ELSE { <<"T","h","i","s">> }

ExceptionTextInputs ==
  IF Alone THEN ExceptionTexts ELSE { <<"t","i","m","e","o","u","t">> }

FileSizeInputs ==
  IF Alone THEN FileSizes ELSE {3 * MiB, 60 * MiB}

\* rec with the fields of ups replaced
Upd(rec, ups) ==
  [f \in DOMAIN rec |-> IF f \in DOMAIN ups THEN ups[f] ELSE rec[f]]

Exc(cls, msg) == Some([cls |-> cls, msg |-> msg])

\* An exception raised inside the try block of handle_url: control moves to
\* the except clause that matches its class.
Raise(rec, cls, msg) ==
  Upd(rec, [pc  |-> IF cls = "DownloadError" THEN "except_download" ELSE "except_other",
            exc |-> Exc(cls, msg)])

\* An exception raised outside every try block: it leaves handle_url.
Escape(rec, msg) ==
  Upd(rec, [pc |-> "escaped", exc |-> Exc("Exception", msg)])

\* ------------------------------------------------------------------------
\* The persistence collaborator (service.py)
\* ------------------------------------------------------------------------
\* record_download(user_id, url, source_type, file_size, status, error_message):
\* one OutcomeRecord appended to the downloads table.
record_download(tbl, user_id, url, source_type, file_size, status, error_message) ==
  Append(tbl, [ user_id       |-> user_id,
                url           |-> url,
                source_type   |-> source_type,
                file_size     |-> file_size,
                status        |-> status,
                error_message |-> error_message ])

\* The block every recording site of handle_url shares,
\*     with bot_app.app_context():
\*         if user_db:
\*             record_download(user_db.user_id, url, url_type, ...)
\* and the ways it can end: nothing is called for a null user reference;
\* otherwise the record is appended, or the persistence layer raises.
RecordBlock(rec, file_size, status, error_message) ==
  IF IsNone(rec.user_db)
  THEN { [tbl |-> downloads, called |-> FALSE, raised |-> FALSE] }
  ELSE { [tbl |-> record_download(downloads, Val(rec.user_db), rec.url,
                                  Val(rec.url_type), file_size, status, error_message),
          called |-> TRUE, raised |-> FALSE],
         [tbl |-> downloads, called |-> TRUE, raised |-> TRUE] }

\* The bookkeeping of one pass through a recording block.
Counted(rec, o) ==
  Upd(rec, [record_calls |-> rec.record_calls + (IF o.called THEN 1 ELSE 0),
            db_raised    |-> rec.db_raised \/ o.raised,
            recorded     |-> IF o.called /\ ~o.raised
                             THEN Append(rec.recorded, o.tbl[Len(o.tbl)])
                             ELSE rec.recorded])

\* ------------------------------------------------------------------------
\* handle_url, step by step
\* ------------------------------------------------------------------------
\* url_type = get_url_type(url); if not url_type: ...
Classify(r) ==
  /\ run[r].pc = "classify"
  /\ \E t \in UrlTypeInputs :
       run' = [run EXCEPT ![r] =
                 Upd(@, [url_type |-> t,
                         pc |-> IF Falsy(t) THEN "reject" ELSE "resolve_user"])]
  /\ UNCHANGED <<downloads, fs, dirs>>

\* The rejection with its return left out: the run goes on to the pipeline.
RejectReplyNoReturn(r) ==
  /\ run[r].pc = "reject"
  /\ \/ run' = [run EXCEPT ![r] =
                  Upd(@, [texts |-> Append(@.texts, INVALID_URL_MESSAGE), pc |-> "resolve_user"])]
     \/ \E e \in ExceptionTextInputs : run' = [run EXCEPT ![r] = Escape(@, e)]
  /\ UNCHANGED <<downloads, fs, dirs>>

\* await update.message.reply_text(INVALID_URL_MESSAGE); return
RejectReply(r) ==
  /\ run[r].pc = "reject"
  /\ \/ run' = [run EXCEPT ![r] =
                  Upd(@, [texts |-> Append(@.texts, INVALID_URL_MESSAGE), pc |-> "done"])]
     \/ \E e \in ExceptionTextInputs : run' = [run EXCEPT ![r] = Escape(@, e)]
  /\ UNCHANGED <<downloads, fs, dirs>>

\* The lookup without its try: a failure of it fails the run.
ResolveUserFatal(r) ==
  /\ run[r].pc = "resolve_user"
  /\ \/ run' = [run EXCEPT ![r] = Upd(@, [user_db |-> Some(100 + r), pc |-> "send_processing"])]
     \/ run' = [run EXCEPT ![r] = Upd(@, [user_db |-> None, pc |-> "send_processing"])]
     \/ run' = [run EXCEPT ![r] = Upd(Raise(@, "Exception", DbErrorText), [db_raised |-> TRUE])]
  /\ UNCHANGED <<downloads, fs, dirs>>

\* try: user_db = get_or_create_user(update) ... except Exception: user_db = None
ResolveUser(r) ==
  /\ run[r].pc = "resolve_user"
  /\ \/ \* the profile is found or created
        run' = [run EXCEPT ![r] = Upd(@, [user_db |-> Some(100 + r), pc |-> "send_processing"])]
     \/ \* nothing comes back, or the call raises
        \E raised \in BOOLEAN :
          run' = [run EXCEPT ![r] =
                    Upd(@, [user_db |-> None, pc |-> "send_processing",
                            db_raised |-> @.db_raised \/ raised])]
  /\ UNCHANGED <<downloads, fs, dirs>>

\* processing_msg = await update.message.reply_text(PROCESSING_MESSAGE)
SendProcessing(r) ==
  /\ run[r].pc = "send_processing"
  /\ \/ run' = [run EXCEPT ![r] =
                  Upd(@, [processing_msg |-> [state |-> "shown", text |-> PROCESSING_MESSAGE, edits |-> 0],
                          pc |-> "download"])]
     \/ \E e \in ExceptionTextInputs : run' = [run EXCEPT ![r] = Escape(@, e)]
  /\ UNCHANGED <<downloads, fs, dirs>>

\* The path a downloader of run r writes to: in a fresh temporary directory,
\* or somewhere else.
Paths(r) == { [id |-> r, intemp |-> b] : b \in BOOLEAN }

\* The dispatch with two branches mixed up, and with its elif chain ending
\* in an else.
DispatchMixedUp(url_type) ==
  IF url_type = "tiktok" THEN <<"twitter">>
  ELSE IF url_type \in Platforms THEN <<url_type>>
  ELSE <<"facebook">>

\* The if/elif dispatch on url_type: the downloaders it invokes.
Dispatch(url_type) == IF url_type \in Platforms THEN <<url_type>> ELSE << >>

\* video_path = download_<platform>_video(url); if video_path is None: raise ...
Download(r) ==
  /\ run[r].pc = "download"
  /\ LET rec    == run[r]
         tag    == Val(rec.url_type)
         called == Upd(rec, [downloader |-> rec.downloader \o Dispatch(tag)])
         nopath == Upd(Raise(called, "DownloadError", MsgCouldNotDownload(tag, rec.url)),
                       [failure |-> Exc("DownloadError", MsgCouldNotDownload(tag, rec.url))])
     IN
     IF Dispatch(tag) = << >>
     THEN /\ run' = [run EXCEPT ![r] = nopath]
          /\ UNCHANGED <<fs, dirs>>
     ELSE \/ \* the downloader returns None
             /\ run' = [run EXCEPT ![r] = nopath]
             /\ UNCHANGED <<fs, dirs>>
          \/ \* the downloader raises DownloadError
             /\ \E e \in ErrorTextInputs :
                  run' = [run EXCEPT ![r] =
                            Upd(Raise(called, "DownloadError", e),
                                [failure |-> Exc("DownloadError", e)])]
             /\ UNCHANGED <<fs, dirs>>
          \/ \* the downloader raises something else
             /\ \E e \in ExceptionTextInputs :
                  run' = [run EXCEPT ![r] =
                            Upd(Raise(called, "Exception", e),
                                [failure |-> Exc("Exception", e)])]
             /\ UNCHANGED <<fs, dirs>>
          \/ \* the downloader returns a path, with the file written there
             \E p \in Paths(r), size \in FileSizeInputs :
               /\ run' = [run EXCEPT ![r] = Upd(called, [video_path |-> Some(p), pc |-> "gate_exists"])]
               /\ fs' = (p :> size) @@ fs
               /\ dirs' = IF p.intemp THEN dirs \cup {r} ELSE dirs
          \/ \* the downloader returns a path where no file is
             \E p \in Paths(r) :
               /\ run' = [run EXCEPT ![r] = Upd(called, [video_path |-> Some(p), pc |-> "gate_exists"])]
               /\ UNCHANGED <<fs, dirs>>
  /\ UNCHANGED downloads

\* if not os.path.exists(video_path): raise DownloadError(...)
GateExists(r) ==
  /\ run[r].pc = "gate_exists"
  /\ LET rec == Upd(run[r], [exists_checked |-> TRUE]) IN
     run' = [run EXCEPT ![r] =
               IF Val(rec.video_path) \in DOMAIN fs
               THEN Upd(rec, [pc |-> "gate_size"])
               ELSE Upd(Raise(rec, "DownloadError", MsgFileNotFound),
                        [failure |-> Exc("DownloadError", MsgFileNotFound)])]
  /\ UNCHANGED <<downloads, fs, dirs>>

\* file_size = os.path.getsize(video_path); file_size_mb = ...;
\* if file_size > max_size_mb * 1024 * 1024: ...
GateSize(r) ==
  /\ run[r].pc = "gate_size"
  /\ LET file_size == fs[Val(run[r].video_path)]
         rec == Upd(run[r], [file_size    |-> Some(file_size),
                             file_size_mb |-> Some(file_size_mb_of(file_size))])
     IN
     run' = [run EXCEPT ![r] =
               IF TooLarge(file_size)
               THEN Upd(rec, [pc |-> "record_too_large",
                              failure |-> Exc("DownloadError", MsgTooLargeToSend)])
               ELSE Upd(rec, [pc |-> "send_video"])]
  /\ UNCHANGED <<downloads, fs, dirs>>

\* The recording block of the oversized branch, outside any try of its own,
\* then raise DownloadError(...).
RecordTooLarge(r) ==
  /\ run[r].pc = "record_too_large"
  /\ \E o \in RecordBlock(run[r], run[r].file_size_mb, "failed", Some(MsgRecordTooLarge)) :
       /\ downloads' = o.tbl
       /\ run' = [run EXCEPT ![r] =
                    IF o.raised
                    THEN Raise(Counted(@, o), "Exception", DbErrorText)
                    ELSE Raise(Counted(@, o), "DownloadError", MsgTooLargeToSend)]
  /\ UNCHANGED <<fs, dirs>>

\* with open(video_path, 'rb') as video_file: await update.message.reply_video(...)
\* with the donation keyboard when get_donation_keyboard built one.
SendVideo(r) ==
  /\ run[r].pc = "send_video"
  /\ \/ \E keyboard \in BOOLEAN :
          run' = [run EXCEPT ![r] =
                    Upd(@, [send_attempts |-> @.send_attempts + 1,
                            video |-> Some([path     |-> Val(@.video_path),
                                            caption  |-> DOWNLOAD_SUCCESS_MESSAGE,
                                            keyboard |-> keyboard]),
                            pc |-> "record_success"])]
     \/ \* except Exception as e: the relay did not go through
        \E e \in ExceptionTextInputs :
          run' = [run EXCEPT ![r] =
                    Upd(@, [send_attempts |-> @.send_attempts + 1,
                            exc     |-> Exc("Exception", e),
                            failure |-> Exc("DownloadError", MsgCouldNotSend(e)),
                            pc |-> "record_send_failed"])]
  /\ UNCHANGED <<downloads, fs, dirs>>

\* The recording block after a delivered video, in a try of its own.
RecordSuccess(r) ==
  /\ run[r].pc = "record_success"
  /\ \E o \in RecordBlock(run[r], run[r].file_size_mb, "success", None) :
       /\ downloads' = o.tbl
       /\ run' = [run EXCEPT ![r] = Upd(Counted(@, o), [pc |-> "delete_processing"])]
  /\ UNCHANGED <<fs, dirs>>

\* The recording block of the failed relay, in a try of its own, then
\* raise DownloadError(f"Could not send video: {str(e)}").
RecordSendFailed(r) ==
  /\ run[r].pc = "record_send_failed"
  /\ LET msg == MsgCouldNotSend(Val(run[r].exc).msg) IN
     \E o \in RecordBlock(run[r], run[r].file_size_mb, "failed", Some(msg)) :
       /\ downloads' = o.tbl
       /\ run' = [run EXCEPT ![r] = Raise(Counted(@, o), "DownloadError", msg)]
  /\ UNCHANGED <<fs, dirs>>

\* The deletion left out: the run goes on to the cleanup.
DeleteProcessingSkipped(r) ==
  /\ run[r].pc = "delete_processing"
  /\ run' = [run EXCEPT ![r] = Upd(@, [pc |-> "cleanup"])]
  /\ UNCHANGED <<downloads, fs, dirs>>

\* await processing_msg.delete()
DeleteProcessing(r) ==
  /\ run[r].pc = "delete_processing"
  /\ \/ run' = [run EXCEPT ![r] =
                  Upd(@, [processing_msg |-> [@.processing_msg EXCEPT !.state = "deleted"],
                          pc |-> "cleanup"])]
     \/ \E e \in ExceptionTextInputs :
          run' = [run EXCEPT ![r] =
                    Upd(Raise(@, "Exception", e), [failure |-> Exc("Exception", e)])]
  /\ UNCHANGED <<downloads, fs, dirs>>

\* A removal that takes every file with it.
RemovedAll(p) == [q \in {} |-> 0]

\* os.remove(video_path): fs without the file at path p
Removed(p) == [q \in DOMAIN fs \ {p} |-> fs[q]]

\* The cleanup without its try: a failed removal fails the run.
CleanupUncaught(r) ==
  /\ run[r].pc = "cleanup"
  /\ LET p == Val(run[r].video_path) IN
     \/ /\ run' = [run EXCEPT ![r] =
                     Upd(Raise(@, "Exception", <<"t","i","m","e","o","u","t">>),
                         [cleanup_raised |-> TRUE])]
        /\ UNCHANGED <<fs, dirs>>
     \/ /\ p.intemp
        /\ run' = [run EXCEPT ![r] =
                     Upd(Raise(@, "Exception", <<"t","i","m","e","o","u","t">>),
                         [cleanup_raised |-> TRUE])]
        /\ fs' = [q \in DOMAIN fs \ {p} |-> fs[q]]
        /\ UNCHANGED dirs
     \/ /\ run' = [run EXCEPT ![r] = Upd(@, [pc |-> "done"])]
        /\ fs' = [q \in DOMAIN fs \ {p} |-> fs[q]]
        /\ dirs' = IF p.intemp THEN dirs \ {p.id} ELSE dirs
  /\ UNCHANGED downloads

\* try: os.remove(video_path); if temp_dir.startswith(tempfile.gettempdir()):
\* os.rmdir(temp_dir) ... except (OSError, FileNotFoundError): warn
Cleanup(r) ==
  /\ run[r].pc = "cleanup"
  /\ LET p == Val(run[r].video_path) IN
     \/ \* os.remove raises: nothing is removed
        /\ run' = [run EXCEPT ![r] = Upd(@, [pc |-> "done", cleanup_raised |-> TRUE])]
        /\ UNCHANGED <<fs, dirs>>
     \/ \* the file is removed and the directory is not a temporary one
        /\ ~p.intemp
        /\ run' = [run EXCEPT ![r] = Upd(@, [pc |-> "done"])]
        /\ fs' = Removed(p)
        /\ UNCHANGED dirs
     \/ \* the file is removed and os.rmdir raises
        /\ p.intemp
        /\ run' = [run EXCEPT ![r] = Upd(@, [pc |-> "done", cleanup_raised |-> TRUE])]
        /\ fs' = Removed(p)
        /\ UNCHANGED dirs
     \/ \* the file and its temporary directory are removed
        /\ p.intemp
        /\ run' = [run EXCEPT ![r] = Upd(@, [pc |-> "done"])]
        /\ fs' = Removed(p)
        /\ dirs' = dirs \ {p.id}
  /\ UNCHANGED downloads

\* except DownloadError as e: error_message = str(e), and the recording
\* block, in a try of its own.
ExceptDownloadRecord(r) ==
  /\ run[r].pc = "except_download"
  /\ \E o \in RecordBlock(run[r], None, "failed", Some(Val(run[r].exc).msg)) :
       /\ downloads' = o.tbl
       /\ run' = [run EXCEPT ![r] = Upd(Counted(@, o), [pc |-> "except_download_edit"])]
  /\ UNCHANGED <<fs, dirs>>

\* The message shown in place of the processing message.
Edited(msg, text) == [msg EXCEPT !.text = text, !.edits = @ + 1]

\* await processing_msg.edit_text(detailed_message)
ExceptDownloadEdit(r) ==
  /\ run[r].pc = "except_download_edit"
  /\ \/ run' = [run EXCEPT ![r] =
                  Upd(@, [processing_msg |-> Edited(@.processing_msg, detailed_message(Val(@.exc).msg)),
                          pc |-> "done"])]
     \/ \E e \in ExceptionTextInputs : run' = [run EXCEPT ![r] = Escape(@, e)]
  /\ UNCHANGED <<downloads, fs, dirs>>

\* except Exception as e: the recording block, in a try of its own.
ExceptOtherRecord(r) ==
  /\ run[r].pc = "except_other"
  /\ \E o \in RecordBlock(run[r], None, "failed", Some(MsgUnexpected(Val(run[r].exc).msg))) :
       /\ downloads' = o.tbl
       /\ run' = [run EXCEPT ![r] = Upd(Counted(@, o), [pc |-> "except_other_edit"])]
  /\ UNCHANGED <<fs, dirs>>

\* await processing_msg.edit_text(f"{ERROR_MESSAGE}\n\nAn unexpected error ...")
ExceptOtherEdit(r) ==
  /\ run[r].pc = "except_other_edit"
  /\ \/ run' = [run EXCEPT ![r] =
                  Upd(@, [processing_msg |-> Edited(@.processing_msg, UnexpectedReply),
                          pc |-> "done"])]
     \/ \E e \in ExceptionTextInputs : run' = [run EXCEPT ![r] = Escape(@, e)]
  /\ UNCHANGED <<downloads, fs, dirs>>

\* error_handler: the framework hands it what left handle_url; it logs.
error_handler(r) ==
  /\ run[r].pc = "escaped"
  /\ run' = [run EXCEPT ![r] = Upd(@, [pc |-> "error_logged"])]
  /\ UNCHANGED <<downloads, fs, dirs>>

Next ==
  \/ \E r \in Runs : Classify(r)
  \/ \E r \in Runs : RejectReply(r)
  \/ \E r \in Runs : ResolveUser(r)
  \/ \E r \in Runs : SendProcessing(r)
  \/ \E r \in Runs : Download(r)
  \/ \E r \in Runs : GateExists(r)
  \/ \E r \in Runs : GateSize(r)
  \/ \E r \in Runs : RecordTooLarge(r)
  \/ \E r \in Runs : SendVideo(r)
  \/ \E r \in Runs : RecordSuccess(r)
  \/ \E r \in Runs : RecordSendFailed(r)
  \/ \E r \in Runs : DeleteProcessing(r)
  \/ \E r \in Runs : Cleanup(r)
  \/ \E r \in Runs : ExceptDownloadRecord(r)
  \/ \E r \in Runs : ExceptDownloadEdit(r)
  \/ \E r \in Runs : ExceptOtherRecord(r)
  \/ \E r \in Runs : ExceptOtherEdit(r)
  \/ \E r \in Runs : error_handler(r)

Spec == Init /\ [][Next]_vars

SpecConc == InitConc /\ [][Next]_vars

\* ------------------------------------------------------------------------
\* Vocabulary of the properties
\* ------------------------------------------------------------------------
\* handle_url has returned, or an exception has left it.
Terminated(rec) == rec.pc \in {"done", "escaped", "error_logged"}

\* The OutcomeRecords run r appended.
RecordsOf(r) == SelectSeq(downloads, LAMBDA d : d.url = run[r].url)

\* The run passed classification.
Classified(rec) == rec.pc # "classify" /\ ~Falsy(rec.url_type)

\* The run failed the way a DownloadError reports: in the download, at the
\* gate (file missing or too large) or in the relay send.
PipelineFailed(rec) ==
  ~IsNone(rec.failure) /\ Val(rec.failure).cls = "DownloadError"

\* The recorder was within reach of the run: the user reference is set and
\* no persistence call raised.
RecorderWorked(rec) == ~IsNone(rec.user_db) /\ ~rec.db_raised

\* ------------------------------------------------------------------------
\* C1
\* ------------------------------------------------------------------------
\* C1: a run that fails by download, gate or send failure has appended
\* exactly one OutcomeRecord by the time it terminates, never two, and that
\* record has status 'failed' and an error_message that is not null.  Stated
\* for the runs whose recorder worked, where nothing but handle_url itself
\* decides how many records there are.
C1_ExactlyOneFailedRecord ==
  \A r \in Runs :
    (Terminated(run[r]) /\ PipelineFailed(run[r]) /\ RecorderWorked(run[r]))
      => /\ Len(RecordsOf(r)) = 1
         /\ RecordsOf(r)[1].status = "failed"
         /\ ~IsNone(RecordsOf(r)[1].error_message)

\* ------------------------------------------------------------------------
\* C2
\* ------------------------------------------------------------------------
\* C2: a run whose download, gate and relay send succeeded has appended
\* exactly one OutcomeRecord by the time it terminates, with status 'success'
\* and the gate-measured size in bytes divided by 1024*1024, whatever the
\* later steps (deleting the processing message, cleanup) do.  Stated for the
\* runs whose recorder worked.
C2_ExactlyOneSuccessRecord ==
  \A r \in Runs :
    (Terminated(run[r]) /\ ~IsNone(run[r].video) /\ RecorderWorked(run[r]))
      => /\ Len(RecordsOf(r)) = 1
         /\ RecordsOf(r)[1].status = "success"
         /\ ~IsNone(RecordsOf(r)[1].file_size)
         /\ Val(RecordsOf(r)[1].file_size).num * (1024 * 1024)
              = Val(run[r].file_size) * Val(RecordsOf(r)[1].file_size).den

\* ------------------------------------------------------------------------
\* C3
\* ------------------------------------------------------------------------
\* C3: when a run has terminated after the downloader produced a file, the
\* file no longer exists, on the success path and on every failure path.
\* Stated for the runs in which no removal and no persistence call raised.
C3_FileGoneAtTermination ==
  \A r \in Runs :
    (Terminated(run[r]) /\ ~IsNone(run[r].file_size)
       /\ ~run[r].cleanup_raised /\ ~run[r].db_raised)
      => Val(run[r].video_path) \notin DOMAIN fs

\* ------------------------------------------------------------------------
\* C4
\* ------------------------------------------------------------------------
\* C4: a file of 50 MiB or more (the boundary included) is never relayed,
\* and every OutcomeRecord the run has appended for the rejection by the
\* time it terminates carries the measured size in MB, none a null.  Stated
\* for the runs whose recorder worked.
C4_GateRejectsAndRecordsSize ==
  \A r \in Runs :
    (Terminated(run[r]) /\ ~IsNone(run[r].file_size)
       /\ Val(run[r].file_size) >= 50 * 1024 * 1024
       /\ RecorderWorked(run[r]))
      => /\ run[r].send_attempts = 0
         /\ \A i \in 1..Len(RecordsOf(r)) :
              RecordsOf(r)[i].file_size = Some(TrueDiv(Val(run[r].file_size), 1024 * 1024))

\* ------------------------------------------------------------------------
\* C5
\* ------------------------------------------------------------------------
\* What the processing message of a run ends as when no persistence call
\* raises: deleted after a delivery, edited to the classified message of the
\* pipeline failure, or edited to the apology for anything unexpected.
ReplyIfPersistenceWorks(rec) ==
  IF IsNone(rec.failure)
  THEN [state |-> "deleted", text |-> PROCESSING_MESSAGE, edits |-> 0]
  ELSE IF Val(rec.failure).cls = "DownloadError"
  THEN [state |-> "shown", text |-> detailed_message(Val(rec.failure).msg), edits |-> 1]
  ELSE [state |-> "shown", text |-> UnexpectedReply, edits |-> 1]

\* C5: a persistence failure never changes what the user gets: a run that
\* returns leaves the user the reply it leaves when persistence works,
\* wherever record_download or the user upsert raised on the way.
C5_PersistenceNeverChangesReply ==
  \A r \in Runs :
    (run[r].pc = "done" /\ Classified(run[r]))
      => run[r].processing_msg = ReplyIfPersistenceWorks(run[r])

\* ------------------------------------------------------------------------
\* C6
\* ------------------------------------------------------------------------
\* C6: reply_video is attempted only after the file was found to exist and
\* its size was found to be within the 50 MiB ceiling; the size is measured
\* only after the existence check, on a file that was there; no relay is
\* attempted for a missing or an oversized file.
C6_GateBeforeRelay ==
  \A r \in Runs :
    /\ run[r].send_attempts > 0
         => /\ run[r].exists_checked
            /\ ~IsNone(run[r].file_size)
            /\ Val(run[r].file_size) <= 50 * 1024 * 1024
    /\ ~IsNone(run[r].file_size)
         => /\ run[r].exists_checked
            /\ run[r].failure # Exc("DownloadError", MsgFileNotFound)
    /\ run[r].failure = Exc("DownloadError", MsgFileNotFound)
         => run[r].send_attempts = 0 /\ IsNone(run[r].file_size)

\* A run relayed a file of exactly the ceiling size, after both checks.
C6_Witness ==
  \E r \in Runs :
    /\ run[r].send_attempts = 1
    /\ run[r].exists_checked
    /\ run[r].file_size = Some(50 * 1024 * 1024)

\* ------------------------------------------------------------------------
\* C7
\* ------------------------------------------------------------------------
\* C7: the recorder is never called zero times for a run that passed
\* classification, a run with a null user reference included.  Stated for
\* the runs that return from handle_url, and of the calls made, so that a
\* record lost to a persistence failure does not count against it.
C7_RecorderCalledAtLeastOnce ==
  \A r \in Runs :
    (run[r].pc = "done" /\ Classified(run[r]))
      => run[r].record_calls >= 1

\* ------------------------------------------------------------------------
\* C8
\* ------------------------------------------------------------------------
\* C8: for a text get_url_type answers None for, handle_url sends the fixed
\* rejection message and terminates: no downloader is invoked, the recorder
\* is not called, no processing message is sent, and nothing else is said.
C8_UnrecognisedIsRejected ==
  \A r \in Runs :
    (run[r].pc # "classify" /\ IsNone(run[r].url_type))
      => /\ run[r].pc \in {"reject", "done", "escaped", "error_logged"}
         /\ run[r].downloader = << >>
         /\ run[r].record_calls = 0
         /\ RecordsOf(r) = << >>
         /\ run[r].processing_msg.state = "none"
         /\ run[r].send_attempts = 0
         /\ run[r].pc = "done" => run[r].texts = <<INVALID_URL_MESSAGE>>
         /\ run[r].pc = "reject" => run[r].texts = << >>

\* A run returned after rejecting an unrecognised text.
C8_Witness ==
  \E r \in Runs :
    /\ run[r].pc = "done"
    /\ IsNone(run[r].url_type)
    /\ run[r].texts = <<INVALID_URL_MESSAGE>>

\* ------------------------------------------------------------------------
\* C9
\* ------------------------------------------------------------------------
\* The run ended in the DownloadError branch, with its message shown.
ClassifiedFailureShown(rec) ==
  /\ rec.pc = "done"
  /\ ~IsNone(rec.exc)
  /\ Val(rec.exc).cls = "DownloadError"
  /\ rec.processing_msg.edits = 1

\* The friendly template the failure message starts with.
ShownTemplate(rec) == SubSeq(rec.processing_msg.text, 1, 1)

\* error_message contains pat, whatever the case of its letters
Mentions(error_message, pat) == Contains(lower(error_message), pat)

SaysTooLarge == <<"t","o","o"," ","l","a","r","g","e">>

\* C9, as amended: the classifier picks exactly one of the six templates for
\* every error text, case-insensitively and first match first: "is private"
\* gives the private-account template; "is too large" without an earlier
\* pattern gives the too-large template; then the no-video, the metadata and
\* the no-stream patterns in that order; a text with none of the five
\* patterns gives the generic fallback.
C9_ClassifierFirstMatch ==
  \A r \in Runs :
    ClassifiedFailureShown(run[r]) =>
      LET m == Val(run[r].exc).msg
          t == ShownTemplate(run[r])
      IN  /\ t \in Templates
          /\ Mentions(m, PatPrivate) => t = MsgPrivate
          /\ (Mentions(m, PatTooLarge) /\ ~Mentions(m, PatPrivate)) => t = MsgTooLarge
          /\ (Mentions(m, PatNoVideo) /\ ~Mentions(m, PatPrivate) /\ ~Mentions(m, PatTooLarge))
               => t = MsgNoVideo
          /\ (Mentions(m, PatNoInfo) /\ ~Mentions(m, PatPrivate) /\ ~Mentions(m, PatTooLarge)
                /\ ~Mentions(m, PatNoVideo))
               => t = MsgNoInfo
          /\ (Mentions(m, PatNoStreams) /\ ~Mentions(m, PatPrivate) /\ ~Mentions(m, PatTooLarge)
                /\ ~Mentions(m, PatNoVideo) /\ ~Mentions(m, PatNoInfo))
               => t = MsgNoStreams
          /\ (~Mentions(m, PatPrivate) /\ ~Mentions(m, PatTooLarge) /\ ~Mentions(m, PatNoVideo)
                /\ ~Mentions(m, PatNoInfo) /\ ~Mentions(m, PatNoStreams))
               => t = ERROR_MESSAGE

\* A downloader's reason that says "Is Private" in capitals and "is too
\* large" as well was answered with the private-account template.
C9_Witness ==
  \E r \in Runs :
    /\ ClassifiedFailureShown(run[r])
    /\ Mentions(Val(run[r].exc).msg, PatTooLarge)
    /\ Mentions(Val(run[r].exc).msg, PatPrivate)
    /\ ~Contains(Val(run[r].exc).msg, PatPrivate)
    /\ ShownTemplate(run[r]) = MsgPrivate

\* C9, as claimed: the same, with "too large" as the pattern of the too-large
\* template.
C9_AnyTooLargeText ==
  \A r \in Runs :
    ClassifiedFailureShown(run[r]) =>
      LET m == Val(run[r].exc).msg
          t == ShownTemplate(run[r])
      IN  /\ t \in Templates
          /\ Mentions(m, PatPrivate) => t = MsgPrivate
          /\ (Mentions(m, SaysTooLarge) /\ ~Mentions(m, PatPrivate)) => t = MsgTooLarge
          /\ (~Mentions(m, PatPrivate) /\ ~Mentions(m, SaysTooLarge) /\ ~Mentions(m, PatNoVideo)
                /\ ~Mentions(m, PatNoInfo) /\ ~Mentions(m, PatNoStreams))
               => t = ERROR_MESSAGE

\* ------------------------------------------------------------------------
\* C10
\* ------------------------------------------------------------------------
\* C10: no failure after classification leaves handle_url: none reaches the
\* error handler of the framework.
C10_NothingEscapes ==
  \A r \in Runs :
    Classified(run[r]) => run[r].pc \notin {"escaped", "error_logged"}

\* ------------------------------------------------------------------------
\* C11
\* ------------------------------------------------------------------------
\* The run is in one of its except clauses.
InExcept(rec) ==
  rec.pc \in {"except_download", "except_download_edit", "except_other", "except_other_edit"}

\* The run has called, or has passed by, its downloader.
PastDownload(rec) ==
  \/ rec.pc \in {"gate_exists", "gate_size", "record_too_large", "send_video",
                 "record_success", "record_send_failed", "delete_processing", "cleanup", "done"}
  \/ InExcept(rec)

\* C11: a failed user resolution never fails the run: it goes on with a null
\* user reference to the processing message, is in an except clause only for
\* a failure of the pipeline itself, invokes the downloader that matches its
\* tag, and delivers the video when download, gate and send succeed.
C11_UserResolutionIsBestEffort ==
  \A r \in Runs :
    (Classified(run[r]) /\ run[r].pc # "resolve_user" /\ IsNone(run[r].user_db))
      => /\ InExcept(run[r]) => ~IsNone(run[r].failure)
         /\ (run[r].pc = "send_processing") => IsNone(run[r].exc)
         /\ (PastDownload(run[r]) /\ Val(run[r].url_type) \in Platforms)
              => run[r].downloader = <<Val(run[r].url_type)>>
         /\ (run[r].pc = "done" /\ IsNone(run[r].failure))
              => /\ ~IsNone(run[r].video)
                 /\ run[r].processing_msg.state = "deleted"
                 /\ run[r].processing_msg.edits = 0

\* A run whose user lookup raised delivered its video and returned.
C11_Witness ==
  \E r \in Runs :
    /\ run[r].pc = "done"
    /\ IsNone(run[r].user_db)
    /\ run[r].db_raised
    /\ ~IsNone(run[r].video)
    /\ run[r].downloader = <<Val(run[r].url_type)>>

\* ------------------------------------------------------------------------
\* C12
\* ------------------------------------------------------------------------
\* C12: a cleanup failure neither aborts the run nor changes its outcome:
\* when os.remove or os.rmdir raises after a delivery, the run returns as a
\* success: the video is delivered, the processing message is deleted and
\* was never edited to a failure text, and none of its OutcomeRecords has
\* status 'failed'.
C12_CleanupFailureIsHarmless ==
  \A r \in Runs :
    run[r].cleanup_raised
      => /\ run[r].pc = "done"
         /\ ~IsNone(run[r].video)
         /\ run[r].processing_msg.state = "deleted"
         /\ run[r].processing_msg.edits = 0
         /\ \A i \in 1..Len(RecordsOf(r)) : RecordsOf(r)[i].status # "failed"

\* A run whose file was removed and whose os.rmdir raised returned with its
\* one 'success' record.
C12_Witness ==
  \E r \in Runs :
    /\ run[r].cleanup_raised
    /\ run[r].pc = "done"
    /\ Val(run[r].video_path).intemp
    /\ Val(run[r].video_path) \notin DOMAIN fs
    /\ r \in dirs
    /\ Len(RecordsOf(r)) = 1
    /\ RecordsOf(r)[1].status = "success"

\* ------------------------------------------------------------------------
\* C13
\* ------------------------------------------------------------------------
\* The run ended in the except Exception branch, with its message shown.
UnexpectedFailureShown(rec) ==
  /\ rec.pc = "done"
  /\ ~IsNone(rec.exc)
  /\ Val(rec.exc).cls = "Exception"
  /\ rec.processing_msg.edits = 1

\* C13, as amended: in every run that fails with a DownloadError (a download,
\* gate or send failure) the text the processing message is edited to is a
\* friendly template, then "Details: ", then the raw error text, which it
\* ends with; in a run that fails unexpectedly the text is the fixed apology
\* with nothing after it.
C13_DetailsFollowTemplate ==
  \A r \in Runs :
    /\ ClassifiedFailureShown(run[r])
         => LET m    == Val(run[r].exc).msg
                text == run[r].processing_msg.text
            IN  /\ EndsWith(text, m)
                /\ Len(text) = 1 + Len(DetailsSep) + Len(m)
                /\ SubSeq(text, 1, 1) \in Templates
                /\ SubSeq(text, 2, 1 + Len(DetailsSep)) = DetailsSep
                /\ m = Val(run[r].failure).msg
    /\ UnexpectedFailureShown(run[r])
         => run[r].processing_msg.text = UnexpectedReply

\* A failed relay was answered with the generic template followed by
\* "Could not send video: " and the text of what the relay raised.
C13_Witness ==
  \E r \in Runs :
    /\ ClassifiedFailureShown(run[r])
    /\ run[r].send_attempts = 1
    /\ \E e \in ExceptionTexts :
         /\ Val(run[r].exc).msg = MsgCouldNotSend(e)
         /\ EndsWith(run[r].processing_msg.text, e)

\* C13, as claimed: every failure reply, that of an unexpected failure
\* included, ends with the raw error text of the failure.
C13_EveryReplyEndsWithDetails ==
  \A r \in Runs :
    (run[r].pc = "done" /\ run[r].processing_msg.edits >= 1)
      => EndsWith(run[r].processing_msg.text, Val(run[r].exc).msg)

LastStatus(r) == RecordsOf(r)[Len(RecordsOf(r))].status

\* C15: an OutcomeRecord is appended only once the outcome is known.  A
\* 'success' record is appended only after reply_video has returned and
\* before the cleanup has started, and nothing that happens after a record
\* turns the outcome into the opposite one: no later record of the run has
\* the other status, and no failure text is shown once a 'success' record is
\* there.
C15_RecordedOutcomeIsFinal ==
  [][\A r \in Runs :
       /\ (Len(RecordsOf(r)') > Len(RecordsOf(r)))
            => /\ (LastStatus(r)' = "success")
                    => /\ run[r].pc = "record_success"
                       /\ ~IsNone(run[r].video)
                       /\ Val(run[r].video_path) \in DOMAIN fs
               /\ (Len(RecordsOf(r)) > 0) => LastStatus(r)' = LastStatus(r)
       /\ (Len(RecordsOf(r)) > 0 /\ LastStatus(r) = "success")
            => run'[r].processing_msg.edits = 0
    ]_vars

\* ------------------------------------------------------------------------
\* C16
\* ------------------------------------------------------------------------
\* C16: success and failure exclude each other in a run: the user is never
\* both sent the video and shown a failure message, and the run never
\* appends both a 'success' and a 'failed' OutcomeRecord.
C16_SuccessExcludesFailure ==
  \A r \in Runs :
    /\ ~(~IsNone(run[r].video) /\ run[r].processing_msg.edits > 0)
    /\ ~(/\ \E i \in 1..Len(RecordsOf(r)) : RecordsOf(r)[i].status = "success"
         /\ \E i \in 1..Len(RecordsOf(r)) : RecordsOf(r)[i].status = "failed")

\* ------------------------------------------------------------------------
\* C17
\* ------------------------------------------------------------------------
\* C17: a run that passed classification invokes at most one downloader,
\* the one of its own tag, and none for a tag without a downloader; a run
\* that got no path from it (no downloader for the tag, or None returned)
\* fails with the download failure and never attempts the relay.
C17_OneMatchingDownloader ==
  \A r \in Runs :
    /\ Len(run[r].downloader) <= 1
    /\ Len(run[r].downloader) = 1
         => /\ Classified(run[r])
            /\ run[r].downloader[1] = Val(run[r].url_type)
            /\ run[r].downloader[1] \in {"youtube", "instagram", "tiktok", "twitter", "facebook"}
    /\ (Classified(run[r]) /\ PastDownload(run[r]))
         => /\ (Val(run[r].url_type) \in {"youtube", "instagram", "tiktok", "twitter", "facebook"})
                 => Len(run[r].downloader) = 1
            /\ IsNone(run[r].video_path)
                 => /\ ~IsNone(run[r].failure)
                    /\ run[r].send_attempts = 0
                    /\ IsNone(run[r].video)
            /\ (Val(run[r].url_type) = "vimeo" \/ run[r].failure
                  = Exc("DownloadError", MsgCouldNotDownload(Val(run[r].url_type), run[r].url)))
                 => /\ IsNone(run[r].video_path)
                    /\ run[r].failure
                         = Exc("DownloadError", MsgCouldNotDownload(Val(run[r].url_type), run[r].url))
                    /\ run[r].send_attempts = 0

\* The tiktok downloader, and no other, was invoked and returned no path;
\* the run ended as a download failure without a relay attempt.
C17_Witness ==
  \E r \in Runs :
    /\ run[r].pc = "done"
    /\ run[r].url_type = Some("tiktok")
    /\ run[r].downloader = <<"tiktok">>
    /\ run[r].failure = Exc("DownloadError", MsgCouldNotDownload("tiktok", run[r].url))
    /\ run[r].send_attempts = 0

\* ------------------------------------------------------------------------
\* C18
\* ------------------------------------------------------------------------
\* C18: a run that ends on a failure that is not a DownloadError ends as an
\* unexpected failure: the user is shown the generic apology and none of the
\* raw exception text, and the outcome is recorded with status 'failed', a
\* null size and the message "Unexpected error: " followed by the exception
\* text.  Stated for the runs that return and in which no persistence call
\* raised.
C18_UnexpectedFailureReported ==
  \A r \in Runs :
    (run[r].pc = "done" /\ ~IsNone(run[r].exc) /\ Val(run[r].exc).cls = "Exception"
       /\ ~run[r].db_raised)
      => /\ run[r].processing_msg.text = UnexpectedReply
         /\ ~Contains(run[r].processing_msg.text, Val(run[r].exc).msg)
         /\ \E i \in 1..Len(RecordsOf(r)) :
              /\ RecordsOf(r)[i].status = "failed"
              /\ IsNone(RecordsOf(r)[i].file_size)
              /\ RecordsOf(r)[i].error_message = Some(MsgUnexpected(Val(run[r].exc).msg))

\* ------------------------------------------------------------------------
\* C19: overlapping runs
\* ------------------------------------------------------------------------
\* The records of the table that carry the URL of run r are the records r
\* appended itself, in the order it appended them, each with r's own
\* platform tag and user and with no size or with the size r measured; and
\* every record of the table belongs to some run.
OwnRecords(r) ==
  /\ RecordsOf(r) = run[r].recorded
  /\ \A i \in 1..Len(run[r].recorded) :
       LET d == run[r].recorded[i] IN
       /\ d.url = UrlOf(r)
       /\ d.user_id = Val(run[r].user_db)
       /\ d.source_type = Val(run[r].url_type)
       /\ IsNone(d.file_size) \/ d.file_size = run[r].file_size_mb

\* Every file that exists was written by the downloader of the run it is
\* named after and sits at the path that run holds; the size a run measured
\* is the size of its own file.
OwnFiles ==
  /\ \A p \in DOMAIN fs :
       p.id \in Runs /\ run[p.id].video_path = Some(p)
  /\ \A r \in Runs :
       (~IsNone(run[r].file_size) /\ Val(run[r].video_path) \in DOMAIN fs)
         => Val(run[r].file_size) = fs[Val(run[r].video_path)]

\* One step of the application: at most one run moves; a file appears only
\* in the download step of its run, disappears only in the cleanup step of
\* its run and never changes size; the table only grows, by a record of the
\* run that moves.
OwnStep ==
  /\ \A r, q \in Runs : (r # q /\ run'[r] # run[r]) => run'[q] = run[q]
  /\ \A p \in DOMAIN fs :
       IF p \in DOMAIN fs'
       THEN fs'[p] = fs[p]
       ELSE run[p.id].pc = "cleanup" /\ run'[p.id].pc = "done"
  /\ \A p \in DOMAIN fs' \ DOMAIN fs :
       run[p.id].pc = "download" /\ run'[p.id].pc = "gate_exists"
  /\ \/ downloads' = downloads
     \/ /\ Len(downloads') = Len(downloads) + 1
        /\ SubSeq(downloads', 1, Len(downloads)) = downloads
        /\ \E r \in Runs :
             run'[r] # run[r] /\ downloads'[Len(downloads')].url = UrlOf(r)

\* C19: overlapping runs do not interfere: each keeps its own locals, its
\* own file and its own replies, removes only its own file, and every
\* record of the table describes the run that appended it.
C19_RunsDoNotInterfere ==
  /\ [](OwnFiles /\ \A r \in Runs : OwnRecords(r))
  /\ [][OwnStep]_vars

\* Two runs that overlapped have both ended: the second one's record of a
\* failure was appended before the first one's record of a success, and the
\* first one removed its file while the file of the second is still there.
C19_Witness ==
  /\ Cardinality(Runs) = 2
  /\ \A r \in Runs : run[r].pc = "done"
  /\ Len(downloads) >= 2
  /\ downloads[1].url = UrlOf(2) /\ downloads[1].status = "failed"
  /\ downloads[2].url = UrlOf(1) /\ downloads[2].status = "success"
  /\ ~IsNone(run[2].video_path) /\ DOMAIN fs = {Val(run[2].video_path)}
  /\ ~IsNone(run[1].video)

====
